---- MODULE Spec2Model ----
(***************************************************************************)
(* Model of src/main.rs: the pipeline                                      *)
(*   CharReader -> Tokens -> Passports -> main                             *)
(* Characters are strings of length one and texts are strings; TLC treats  *)
(* a string as the sequence of its characters (Head, Tail, SubSeq, \o).    *)
(***************************************************************************)
EXTENDS Integers, Sequences, FiniteSets, TLC

VARIABLES
    input,      \* the content of the opened file (never changes)
    state,      \* CharReader.state
    consumed,   \* the characters CharReader::next has returned so far
    tpc,        \* where Tokens is: "next" (between tokens), "key", "value"
    key,        \* parse_pair's key buffer
    value,      \* parse_pair's value buffer
    src,        \* the text still unread when parse_pair was entered
    tok,        \* what Tokens::next returned to Passports::next
    pairs,      \* Passports::next's in-progress map
    passports,  \* the Vec<Passport> main collects
    pc,         \* where main is: "collect", "count", "done", "panic"
    err,        \* the panic message
    out         \* what was printed

vars == <<input, state, consumed, tpc, key, value, src, tok, pairs,
          passports, pc, err, out>>

----------------------------------------------------------------------------
(* Bounds of the input space *)

MaxLen == 6

MaxFrags == 3

Alphabet == {"a", ":", " ", "\n"}

----------------------------------------------------------------------------
(* Texts *)

Last(s) == SubSeq(s, Len(s), Len(s))

Front(s) == SubSeq(s, 1, Len(s) - 1)

RECURSIVE reverse_string(_)
reverse_string(s) ==
    IF s = "" THEN "" ELSE reverse_string(Tail(s)) \o Head(s)

\* BufRead::read_line: the bytes up to and including the next newline, or
\* all that is left; the empty text (Ok(0)) at end of file.
RECURSIVE read_line(_)
read_line(rest) ==
    IF rest = "" THEN ""
    ELSE IF Head(rest) = "\n" THEN "\n"
    ELSE Head(rest) \o read_line(Tail(rest))

----------------------------------------------------------------------------
(* CharReader *)

StReader(rest) == [tag |-> "Reader", rest |-> rest, line |-> ""]

StReaderLine(rest, line) == [tag |-> "ReaderLine", rest |-> rest, line |-> line]

StDone == [tag |-> "Done", rest |-> "", line |-> ""]

StNone == [tag |-> "None", rest |-> "", line |-> ""]

ReadErrorLine == [kind |-> "read_error", n |-> 0]

\* One result of CharReader::next: Some(c) or None, the state left behind,
\* what it printed, the number of loop iterations, whether it panicked.
CharResult(some, c, st, printed, steps, panicked) ==
    [some |-> some, c |-> c, state |-> st, printed |-> printed,
     steps |-> steps, panicked |-> panicked]

\* ReaderBranch whose Err arm prints and does not put a state back.
ReaderBranch_ErrLeavesNone(st, fails) ==
    LET buf == read_line(st.rest) IN
    IF fails THEN [state |-> StNone, printed |-> <<ReadErrorLine>>]
    ELSE IF buf = "" THEN [state |-> StDone, printed |-> <<>>]
    ELSE [state |-> StReaderLine(SubSeq(st.rest, Len(buf) + 1, Len(st.rest)),
                                 reverse_string(buf)),
          printed |-> <<>>]

\* The branch of CharReader::next for Reader: read a line.
ReaderBranch(st, fails) ==
    LET buf == read_line(st.rest) IN
    IF fails THEN [state |-> StDone, printed |-> <<ReadErrorLine>>]
    ELSE IF buf = "" THEN [state |-> StDone, printed |-> <<>>]
    ELSE [state |-> StReaderLine(SubSeq(st.rest, Len(buf) + 1, Len(st.rest)),
                                 reverse_string(buf)),
          printed |-> <<>>]

\* CharReaderLoop whose Done arm returns None and does not put Done back.
RECURSIVE CharReaderLoop_DoneLeavesNone(_, _, _, _)
CharReaderLoop_DoneLeavesNone(st, fails, printed, steps) ==
    CASE st.tag = "None" ->
            CharResult(FALSE, "", StNone, printed, steps + 1, TRUE)
      [] st.tag = "Done" ->
            CharResult(FALSE, "", StNone, printed, steps + 1, FALSE)
      [] st.tag = "Reader" ->
            LET b == ReaderBranch(st, fails) IN
            CharReaderLoop_DoneLeavesNone(b.state, fails, printed \o b.printed,
                                          steps + 1)
      [] st.tag = "ReaderLine" ->
            IF st.line /= ""
            THEN CharResult(TRUE, Last(st.line),
                            StReaderLine(st.rest, Front(st.line)),
                            printed, steps + 1, FALSE)
            ELSE CharReaderLoop_DoneLeavesNone(StReader(st.rest), fails,
                                               printed, steps + 1)

\* CharReader::next from state st; fails says whether a read_line made
\* during this call returns Err.
RECURSIVE CharReaderLoop(_, _, _, _)
CharReaderLoop(st, fails, printed, steps) ==
    CASE st.tag = "None" ->
            CharResult(FALSE, "", StNone, printed, steps + 1, TRUE)
      [] st.tag = "Done" ->
            CharResult(FALSE, "", StDone, printed, steps + 1, FALSE)
      [] st.tag = "Reader" ->
            LET b == ReaderBranch(st, fails) IN
            CharReaderLoop(b.state, fails, printed \o b.printed, steps + 1)
      [] st.tag = "ReaderLine" ->
            IF st.line /= ""
            THEN CharResult(TRUE, Last(st.line),
                            StReaderLine(st.rest, Front(st.line)),
                            printed, steps + 1, FALSE)
            ELSE CharReaderLoop(StReader(st.rest), fails, printed, steps + 1)

CharReaderNext(st, fails) == CharReaderLoop(st, fails, <<>>, 0)

----------------------------------------------------------------------------
(* Tokens *)

NoToken == [kind |-> "none", key |-> "", value |-> "", msg |-> ""]

TokPair(k, v) == [kind |-> "Pair", key |-> k, value |-> v, msg |-> ""]

TokBreak == [kind |-> "Break", key |-> "", value |-> "", msg |-> ""]

TokErr(m) == [kind |-> "Err", key |-> "", value |-> "", msg |-> m]

TokEnd == [kind |-> "End", key |-> "", value |-> "", msg |-> ""]

\* The text CharReader has still to deliver.
Unread(st) == reverse_string(st.line) \o st.rest

\* The effect of a CharReader::next call on the reader's variables.
Pull(r) ==
    /\ state' = r.state
    /\ consumed' = IF r.some THEN consumed \o r.c ELSE consumed
    /\ out' = out \o r.printed

\* CharReader::next found its state taken and not replaced: it panics.
ReaderPanic ==
    /\ pc' = "panic"
    /\ err' = "none is not a valid state outside the next function"
    /\ state' = StNone
    /\ UNCHANGED <<consumed, out, tpc, key, value, src, tok>>

\* Tokens::next: one character decides between None, Break and parse_pair.
TokensNext ==
    /\ pc = "collect" /\ tok.kind = "none" /\ tpc = "next"
    /\ \E fails \in BOOLEAN :
         LET r == CharReaderNext(state, fails) IN
         IF r.panicked THEN ReaderPanic
         ELSE
         /\ Pull(r)
         /\ IF ~r.some
            THEN tok' = TokEnd /\ UNCHANGED <<tpc, key, value, src>>
            ELSE IF r.c = "\n"
            THEN tok' = TokBreak /\ UNCHANGED <<tpc, key, value, src>>
            ELSE /\ tpc' = "key"
                 /\ key' = r.c
                 /\ value' = ""
                 /\ src' = Unread(r.state)
                 /\ UNCHANGED tok
         /\ UNCHANGED <<pc, err>>
    /\ UNCHANGED <<input, pairs, passports>>

\* parse_pair, one iteration of its first loop.
ParsePairKey ==
    /\ pc = "collect" /\ tpc = "key"
    /\ \E fails \in BOOLEAN :
         LET r == CharReaderNext(state, fails) IN
         IF r.panicked THEN ReaderPanic
         ELSE
         /\ Pull(r)
         /\ IF ~r.some
            THEN /\ tok' = TokErr("end of file in key")
                 /\ tpc' = "next"
                 /\ UNCHANGED key
            ELSE IF r.c = ":"
            THEN tpc' = "value" /\ UNCHANGED <<tok, key>>
            ELSE IF r.c = "\n"
            THEN /\ tok' = TokErr("newline in key")
                 /\ tpc' = "next"
                 /\ UNCHANGED key
            ELSE key' = key \o r.c /\ UNCHANGED <<tok, tpc>>
         /\ UNCHANGED <<value, src, pc, err>>
    /\ UNCHANGED <<input, pairs, passports>>

\* ParsePairValue keeping a ':' in the value instead of failing.
ParsePairValue_ColonKept ==
    /\ pc = "collect" /\ tpc = "value"
    /\ \E fails \in BOOLEAN :
         LET r == CharReaderNext(state, fails) IN
         IF r.panicked THEN ReaderPanic
         ELSE
         /\ Pull(r)
         /\ IF ~r.some \/ r.c \in {"\n", " "}
            THEN /\ tok' = TokPair(key, value)
                 /\ tpc' = "next"
                 /\ UNCHANGED value
            ELSE value' = value \o r.c /\ UNCHANGED <<tok, tpc>>
         /\ UNCHANGED <<key, src, pc, err>>
    /\ UNCHANGED <<input, pairs, passports>>

\* ParsePairValue failing when the input ends inside a value.
ParsePairValue_EofFails ==
    /\ pc = "collect" /\ tpc = "value"
    /\ \E fails \in BOOLEAN :
         LET r == CharReaderNext(state, fails) IN
         IF r.panicked THEN ReaderPanic
         ELSE
         /\ Pull(r)
         /\ IF ~r.some
            THEN /\ tok' = TokErr("end of file in value")
                 /\ tpc' = "next"
                 /\ UNCHANGED value
            ELSE IF r.c \in {"\n", " "}
            THEN /\ tok' = TokPair(key, value)
                 /\ tpc' = "next"
                 /\ UNCHANGED value
            ELSE IF r.c = ":"
            THEN /\ tok' = TokErr(": in value")
                 /\ tpc' = "next"
                 /\ UNCHANGED value
            ELSE value' = value \o r.c /\ UNCHANGED <<tok, tpc>>
         /\ UNCHANGED <<key, src, pc, err>>
    /\ UNCHANGED <<input, pairs, passports>>

\* ParsePairValue returning a Break for the newline that ends a value.
ParsePairValue_NewlineBreaks ==
    /\ pc = "collect" /\ tpc = "value"
    /\ \E fails \in BOOLEAN :
         LET r == CharReaderNext(state, fails) IN
         IF r.panicked THEN ReaderPanic
         ELSE
         /\ Pull(r)
         /\ IF ~r.some \/ r.c = " "
            THEN /\ tok' = TokPair(key, value)
                 /\ tpc' = "next"
                 /\ UNCHANGED value
            ELSE IF r.c = "\n"
            THEN /\ tok' = TokBreak
                 /\ tpc' = "next"
                 /\ UNCHANGED value
            ELSE IF r.c = ":"
            THEN /\ tok' = TokErr(": in value")
                 /\ tpc' = "next"
                 /\ UNCHANGED value
            ELSE value' = value \o r.c /\ UNCHANGED <<tok, tpc>>
         /\ UNCHANGED <<key, src, pc, err>>
    /\ UNCHANGED <<input, pairs, passports>>

\* parse_pair, one iteration of its second loop.
ParsePairValue ==
    /\ pc = "collect" /\ tpc = "value"
    /\ \E fails \in BOOLEAN :
         LET r == CharReaderNext(state, fails) IN
         IF r.panicked THEN ReaderPanic
         ELSE
         /\ Pull(r)
         /\ IF ~r.some \/ r.c \in {"\n", " "}
            THEN /\ tok' = TokPair(key, value)
                 /\ tpc' = "next"
                 /\ UNCHANGED value
            ELSE IF r.c = ":"
            THEN /\ tok' = TokErr(": in value")
                 /\ tpc' = "next"
                 /\ UNCHANGED value
            ELSE value' = value \o r.c /\ UNCHANGED <<tok, tpc>>
         /\ UNCHANGED <<key, src, pc, err>>
    /\ UNCHANGED <<input, pairs, passports>>

----------------------------------------------------------------------------
(* Passport *)

EmptyPairs == [k \in {} |-> ""]

\* Insert keeping the value a key already has.
Insert_KeepFirst(m, k, v) ==
    [x \in DOMAIN m \cup {k} |-> IF x \in DOMAIN m THEN m[x] ELSE v]

\* HashMap::insert: an existing key is overwritten.
Insert(m, k, v) == [x \in DOMAIN m \cup {k} |-> IF x = k THEN v ELSE m[x]]

REQUIRED == <<"byr", "iyr", "eyr", "hgt", "hcl", "ecl", "pid">>

Digits == {"0", "1", "2", "3", "4", "5", "6", "7", "8", "9"}

DigitVal(c) ==
    CASE c = "0" -> 0 [] c = "1" -> 1 [] c = "2" -> 2 [] c = "3" -> 3
      [] c = "4" -> 4 [] c = "5" -> 5 [] c = "6" -> 6 [] c = "7" -> 7
      [] c = "8" -> 8 [] c = "9" -> 9

AllIn(s, set) == \A i \in 1..Len(s) : SubSeq(s, i, i) \in set

\* A u32 as two decimal limbs, hi * 100000 + lo, so that the bound
\* u32::MAX = 42949 * 100000 + 67295 is compared without leaving the
\* integers TLC computes with.
RECURSIVE ParseDigits(_, _, _)
ParseDigits(s, hi, lo) ==
    IF s = "" THEN [ok |-> TRUE, hi |-> hi, lo |-> lo]
    ELSE IF Head(s) \notin Digits THEN [ok |-> FALSE, hi |-> 0, lo |-> 0]
    ELSE LET t   == lo * 10 + DigitVal(Head(s))
             lo2 == t % 100000
             hi2 == hi * 10 + (t \div 100000)
         IN  IF hi2 > 42949 \/ (hi2 = 42949 /\ lo2 > 67295)
             THEN [ok |-> FALSE, hi |-> 0, lo |-> 0]
             ELSE ParseDigits(Tail(s), hi2, lo2)

\* str::parse::<u32>: an optional leading '+', then one or more ASCII
\* digits, the value at most u32::MAX; anything else is an Err.
ParseU32(s) ==
    LET body == IF s /= "" /\ Head(s) = "+" THEN Tail(s) ELSE s IN
    IF body = "" THEN [ok |-> FALSE, hi |-> 0, lo |-> 0]
    ELSE ParseDigits(body, 0, 0)

\* y >= from && y <= to for a parsed u32 (from and to below 100000).
\* InRange with the bounds excluded.
InRange_Exclusive(y, from, to) == y.hi = 0 /\ y.lo > from /\ y.lo < to

InRange(y, from, to) == y.hi = 0 /\ y.lo >= from /\ y.lo <= to

contains_min_fields(p) ==
    \A i \in 1..Len(REQUIRED) : REQUIRED[i] \in DOMAIN p

contains_cid_field(p) == "cid" \in DOMAIN p

\* contains_passport_required_fields without the cid test.
contains_passport_required_fields_NoCid(p) ==
    /\ Cardinality(DOMAIN p) = Len(REQUIRED) + 1
    /\ contains_min_fields(p)

contains_passport_required_fields(p) ==
    /\ Cardinality(DOMAIN p) = Len(REQUIRED) + 1
    /\ contains_min_fields(p)
    /\ contains_cid_field(p)

contains_north_pole_required_fields(p) ==
    Cardinality(DOMAIN p) = Len(REQUIRED) /\ contains_min_fields(p)

\* contains_required_fields without the north-pole variant.
contains_required_fields_CidOnly(p) == contains_passport_required_fields(p)

contains_required_fields(p) ==
    contains_passport_required_fields(p) \/ contains_north_pole_required_fields(p)

value_in_valid_u32_range(p, k, from, to) ==
    /\ k \in DOMAIN p
    /\ LET y == ParseU32(p[k]) IN y.ok /\ InRange(y, from, to)

is_valid_byr(p) == value_in_valid_u32_range(p, "byr", 1920, 2002)

is_valid_iyr(p) == value_in_valid_u32_range(p, "iyr", 2010, 2020)

is_valid_eyr(p) == value_in_valid_u32_range(p, "eyr", 2020, 2030)

\* HGT_REGEX ^(?P<amount>\d+)(?P<unit>cm|in)$: the captures of a match
\* (the unit is the last two characters, the amount all before them).
HgtCaptures(v) ==
    LET n == Len(v) IN
    IF /\ n >= 3
       /\ SubSeq(v, n - 1, n) \in {"cm", "in"}
       /\ AllIn(SubSeq(v, 1, n - 2), Digits)
    THEN [matched |-> TRUE, amount |-> SubSeq(v, 1, n - 2),
          unit |-> SubSeq(v, n - 1, n)]
    ELSE [matched |-> FALSE, amount |-> "", unit |-> ""]

\* is_valid_hgt without the unit tests: either range passes.
is_valid_hgt_AnyUnit(p) ==
    /\ "hgt" \in DOMAIN p
    /\ LET cap == HgtCaptures(p["hgt"]) IN
       /\ cap.matched
       /\ LET h == ParseU32(cap.amount) IN
          /\ h.ok
          /\ InRange(h, 150, 193) \/ InRange(h, 59, 76)

is_valid_hgt(p) ==
    /\ "hgt" \in DOMAIN p
    /\ LET cap == HgtCaptures(p["hgt"]) IN
       /\ cap.matched
       /\ LET h == ParseU32(cap.amount) IN
          /\ h.ok
          /\ \/ cap.unit = "cm" /\ InRange(h, 150, 193)
             \/ cap.unit = "in" /\ InRange(h, 59, 76)

\* HCL_REGEX ^#[a-f0-9]{6}$
HclMatch(v) ==
    /\ Len(v) = 7
    /\ Head(v) = "#"
    /\ AllIn(Tail(v), Digits \cup {"a", "b", "c", "d", "e", "f"})

\* ECL_REGEX ^(?:amb|blu|brn|gry|grn|hzl|oth)$
EclMatch(v) == v \in {"amb", "blu", "brn", "gry", "grn", "hzl", "oth"}

\* PID_REGEX ^\d{9}$ (\d also matches the decimal digits outside ASCII;
\* no text of this model holds one)
PidMatch(v) == Len(v) = 9 /\ AllIn(v, Digits)

is_valid_hcl(p) == "hcl" \in DOMAIN p /\ HclMatch(p["hcl"])

is_valid_ecl(p) == "ecl" \in DOMAIN p /\ EclMatch(p["ecl"])

is_valid_pid(p) == "pid" \in DOMAIN p /\ PidMatch(p["pid"])

is_valid(p) ==
    /\ is_valid_byr(p)
    /\ is_valid_iyr(p)
    /\ is_valid_eyr(p)
    /\ is_valid_hgt(p)
    /\ is_valid_hcl(p)
    /\ is_valid_ecl(p)
    /\ is_valid_pid(p)

----------------------------------------------------------------------------
(* Passports *)

\* Passports::next, Some(Ok(Token::Pair(p))): insert and go on.
PassportsPair ==
    /\ pc = "collect" /\ tok.kind = "Pair"
    /\ pairs' = Insert(pairs, tok.key, tok.value)
    /\ tok' = NoToken
    /\ UNCHANGED <<input, state, consumed, tpc, key, value, src,
                   passports, pc, err, out>>

\* PassportsEmit without the guard !pairs.is_empty().
PassportsEmit_NoGuard ==
    /\ pc = "collect" /\ tok.kind \in {"Break", "End"}
    /\ tok.kind = "Break" \/ DOMAIN pairs /= {}
    /\ passports' = Append(passports, pairs)
    /\ pairs' = EmptyPairs
    /\ tok' = NoToken
    /\ UNCHANGED <<input, state, consumed, tpc, key, value, src, pc, err, out>>

\* PassportsEmit going on with the map it returned.
PassportsEmit_NoReset ==
    /\ pc = "collect" /\ tok.kind \in {"Break", "End"}
    /\ DOMAIN pairs /= {}
    /\ passports' = Append(passports, pairs)
    /\ tok' = NoToken
    /\ UNCHANGED <<input, state, consumed, tpc, key, value, src, pairs, pc,
                   err, out>>

\* Passports::next, Break or None with pairs not empty: return the
\* Passport; collect() pushes it and calls next again with a new map.
PassportsEmit ==
    /\ pc = "collect" /\ tok.kind \in {"Break", "End"}
    /\ DOMAIN pairs /= {}
    /\ passports' = Append(passports, pairs)
    /\ pairs' = EmptyPairs
    /\ tok' = NoToken
    /\ UNCHANGED <<input, state, consumed, tpc, key, value, src, pc, err, out>>

\* Passports::next, Break with pairs empty: ignore extra line breaks.
PassportsIgnoreBreak ==
    /\ pc = "collect" /\ tok.kind = "Break"
    /\ DOMAIN pairs = {}
    /\ tok' = NoToken
    /\ UNCHANGED <<input, state, consumed, tpc, key, value, src, pairs,
                   passports, pc, err, out>>

\* PassportsPanic skipping the malformed token instead of panicking.
PassportsPanic_Skip ==
    /\ pc = "collect" /\ tok.kind = "Err"
    /\ tok' = NoToken
    /\ UNCHANGED <<input, state, consumed, tpc, key, value, src, pairs,
                   passports, pc, err, out>>

\* Passports::next, Some(Err(e)): panic.
PassportsPanic ==
    /\ pc = "collect" /\ tok.kind = "Err"
    /\ pc' = "panic"
    /\ err' = "card error: " \o tok.msg
    /\ UNCHANGED <<input, state, consumed, tpc, key, value, src, tok, pairs,
                   passports, out>>

\* PassportsEnd going round the loop again instead of leaving it.
PassportsEnd_Continue ==
    /\ pc = "collect" /\ tok.kind = "End"
    /\ DOMAIN pairs = {}
    /\ tok' = NoToken
    /\ UNCHANGED <<input, state, consumed, tpc, key, value, src, pairs,
                   passports, pc, err, out>>

\* Passports::next, None with pairs empty: return None; collect() ends.
PassportsEnd ==
    /\ pc = "collect" /\ tok.kind = "End"
    /\ DOMAIN pairs = {}
    /\ pc' = "count"
    /\ tok' = NoToken
    /\ UNCHANGED <<input, state, consumed, tpc, key, value, src, pairs,
                   passports, err, out>>

----------------------------------------------------------------------------
(* main *)

NumRequired(ps) ==
    Cardinality({i \in 1..Len(ps) : contains_required_fields(ps[i])})

\* NumValid without the contains_required_fields gate.
NumValid_NoGate(ps) ==
    Cardinality({i \in 1..Len(ps) : is_valid(ps[i])})

NumValid(ps) ==
    Cardinality({i \in 1..Len(ps) :
                    contains_required_fields(ps[i]) /\ is_valid(ps[i])})

\* main after collect(): count twice and print both counts.
MainReport ==
    /\ pc = "count"
    /\ out' = out \o <<[kind |-> "required", n |-> NumRequired(passports)],
                       [kind |-> "valid", n |-> NumValid(passports)]>>
    /\ pc' = "done"
    /\ UNCHANGED <<input, state, consumed, tpc, key, value, src, tok, pairs,
                   passports, err>>

----------------------------------------------------------------------------
(* The inputs *)

\* Every text over Alphabet of at most n characters.
RECURSIVE Texts(_)
Texts(n) ==
    IF n = 0 THEN {""}
    ELSE LET S == Texts(n - 1) IN
         S \cup {s \o c : s \in {t \in S : Len(t) = n - 1}, c \in Alphabet}

Fragments ==
    { "byr:1990 iyr:2015 eyr:2025\nhgt:180cm hcl:#abc123 ecl:blu pid:123456789\n",
      "\n",
      "byr:1990 iyr:2015",
      "cid:1\n",
      "hgt:190in\n",
      "xyz:1\n" }

\* Every concatenation of at most n fragments.
RECURSIVE Compositions(_)
Compositions(n) ==
    IF n = 0 THEN {""}
    ELSE LET S == Compositions(n - 1) IN
         S \cup {s \o f : s \in S, f \in Fragments}

Inputs == Texts(MaxLen) \cup Compositions(MaxFrags)

\* After open_char_reader(..).into_tokens().into_passports(), as collect()
\* makes its first call.
InitRun(text) ==
    /\ input = text
    /\ state = StReader(text)
    /\ consumed = ""
    /\ tpc = "next"
    /\ key = ""
    /\ value = ""
    /\ src = ""
    /\ tok = NoToken
    /\ pairs = EmptyPairs
    /\ passports = <<>>
    /\ pc = "collect"
    /\ err = ""
    /\ out = <<>>

Init == \E text \in Inputs : InitRun(text)

Next ==
    \/ TokensNext
    \/ ParsePairKey
    \/ ParsePairValue
    \/ PassportsPair
    \/ PassportsEmit
    \/ PassportsIgnoreBreak
    \/ PassportsPanic
    \/ PassportsEnd
    \/ MainReport

Spec == Init /\ [][Next]_vars

\* The longest standard input of the runs checked for termination.
MaxFairLen == 4

InitFair == \E text \in Texts(MaxFairLen) : InitRun(text)

\* The program is one sequential process that runs until it ends: a step
\* that can be taken is taken.
SpecFair == InitFair /\ [][Next]_vars /\ WF_vars(Next)

----------------------------------------------------------------------------
(* Single records handed to main's counting *)

KeyUniverse ==
    {"byr", "iyr", "eyr", "hgt", "hcl", "ecl", "pid", "cid", "xyz"}

GoodValues ==
    [byr |-> "1990", iyr |-> "2015", eyr |-> "2025", hgt |-> "180cm",
     hcl |-> "#abc123", ecl |-> "blu", pid |-> "123456789",
     cid |-> "1", xyz |-> "1"]

BadValues ==
    [byr |-> "1919", iyr |-> "2021", eyr |-> "2031", hgt |-> "190in",
     hcl |-> "#123abz", ecl |-> "red", pid |-> "0123456789",
     cid |-> "", xyz |-> ""]

ValueProfiles ==
    {GoodValues, BadValues}
      \cup {[GoodValues EXCEPT ![k] = BadValues[k]] : k \in KeyUniverse}

WithValues(D, prof) == [k \in D |-> prof[k]]

Records ==
    {WithValues(D, prof) : D \in SUBSET KeyUniverse \ {{}}, prof \in ValueProfiles}

\* main with collect() finished on a single record.
InitRecord ==
    /\ \E p \in Records : passports = <<p>>
    /\ input = ""
    /\ state = StDone
    /\ consumed = ""
    /\ tpc = "next"
    /\ key = ""
    /\ value = ""
    /\ src = ""
    /\ tok = NoToken
    /\ pairs = EmptyPairs
    /\ pc = "count"
    /\ err = ""
    /\ out = <<>>

NextRecord == MainReport

SpecRecord == InitRecord /\ [][NextRecord]_vars

----------------------------------------------------------------------------
(* Single records with one field's value varied *)

SignsAndSpaces == {"+", "-", "\t", "\r"}

Numerals ==
    {"", "0", "58", "59", "60", "76", "77", "149", "150", "180", "190",
     "193", "194", "0150", "1919", "1920", "1990", "2002", "2003", "2009",
     "2010", "2015", "2019", "2020", "2021", "2025", "2030", "2031",
     "02002", "4294967295", "4294967296", "4294967446", "4294969216"}

Units == {"", "cm", "in", "mm", "c", "cmx"}

YearValues ==
    {pre \o n \o post :
        pre \in {"", "+", "-", "\t"}, n \in Numerals, post \in {"", "\t", "\r"}}

HgtValues ==
    {pre \o n \o u \o post :
        pre \in {"", "+", "-", "\t"}, n \in Numerals, u \in Units,
        post \in {"", "\r"}}

FieldValues ==
    [byr |-> YearValues, iyr |-> YearValues, eyr |-> YearValues,
     hgt |-> HgtValues]

IntFields == {"byr", "iyr", "eyr", "hgt"}

\* main with collect() finished on a single record that has the seven
\* required fields, one of the four numeric ones with any value.
InitField ==
    /\ \E k \in IntFields : \E v \in FieldValues[k] :
          passports =
            <<[WithValues(KeyUniverse \ {"cid", "xyz"}, GoodValues)
                  EXCEPT ![k] = v]>>
    /\ input = ""
    /\ state = StDone
    /\ consumed = ""
    /\ tpc = "next"
    /\ key = ""
    /\ value = ""
    /\ src = ""
    /\ tok = NoToken
    /\ pairs = EmptyPairs
    /\ pc = "count"
    /\ err = ""
    /\ out = <<>>

NextField == MainReport

SpecField == InitField /\ [][NextField]_vars

----------------------------------------------------------------------------
(* What the run printed *)

ReadErrorPrinted == \E i \in 1..Len(out) : out[i].kind = "read_error"

CountsReported == \E i \in 1..Len(out) : out[i].kind \in {"required", "valid"}

Reported(kind) == (CHOOSE i \in 1..Len(out) : out[i].kind = kind)

ReportedRequired == out[Reported("required")].n

ReportedValid == out[Reported("valid")].n

----------------------------------------------------------------------------
(* C1 *)

\* The non-empty groups of lines of a text: a blank line is an empty line,
\* a group a maximal run of lines that are not blank.
RECURSIVE GroupsFrom(_, _, _)
GroupsFrom(s, atLineStart, inGroup) ==
    IF s = "" THEN 0
    ELSE IF Head(s) = "\n"
    THEN GroupsFrom(Tail(s), TRUE, IF atLineStart THEN FALSE ELSE inGroup)
    ELSE (IF inGroup THEN 0 ELSE 1) + GroupsFrom(Tail(s), FALSE, TRUE)

\* C1: when collect() has finished on a text that was read in full, the
\* number of Records equals the number of non-empty groups of lines of the
\* text delimited by blank lines.
C1_RecordsEqualGroups ==
    (pc \in {"count", "done"} /\ ~ReadErrorPrinted)
        => Len(passports) = GroupsFrom(input, TRUE, FALSE)

----------------------------------------------------------------------------
(* C2 *)

Has(s, set) == \E i \in 1..Len(s) : SubSeq(s, i, i) \in set

\* C2: every Pair token the tokenizer emits has a key without ':' and
\* newline and a value without ':', space and newline.
C2_PairCharsClean ==
    tok.kind = "Pair"
        => /\ ~Has(tok.key, {":", "\n"})
           /\ ~Has(tok.value, {":", " ", "\n"})

----------------------------------------------------------------------------
(* C3 *)

\* C3: every Record emitted has at least one field, and a Break received
\* while the in-progress map is empty emits nothing and leaves it empty.
C3_NoEmptyRecord ==
    /\ [](\A i \in 1..Len(passports) : DOMAIN passports[i] /= {})
    /\ [][(tok.kind = "Break" /\ DOMAIN pairs = {})
            => (passports' = passports /\ DOMAIN pairs' = {})]_vars

\* A Break arrives after a Record was emitted and before any new Pair.
C3_Witness ==
    /\ Len(passports) >= 1
    /\ tok.kind = "Break"
    /\ DOMAIN pairs = {}

----------------------------------------------------------------------------
(* C4 *)

\* C4: a tokenizer error makes the next step of the run a panic, and a run
\* that panicked reports no count, then or later.
C4_TokenizerErrorAborts ==
    /\ [][tok.kind = "Err" => (pc' = "panic" /\ ~CountsReported')]_vars
    /\ [](pc = "panic" => ~CountsReported)
    /\ [][pc = "panic" => (pc' = "panic" /\ out' = out)]_vars

\* The run panicked on a tokenizer error after a complete record.
C4_Witness ==
    /\ pc = "panic"
    /\ tok.kind = "Err"
    /\ Len(passports) >= 1

----------------------------------------------------------------------------
(* C5 *)

\* The first position of s holding a character of set, 0 when none does.
FirstOf(s, set) ==
    IF Has(s, set)
    THEN CHOOSE i \in 1..Len(s) :
            /\ SubSeq(s, i, i) \in set
            /\ \A j \in 1..(i - 1) : SubSeq(s, j, j) \notin set
    ELSE 0

\* What parse_pair is to return on the text s following the key's first
\* character.
ExpectedOutcome(s) ==
    LET colon   == FirstOf(s, {":"})
        newline == FirstOf(s, {"\n"})
    IN  IF newline > 0 /\ (colon = 0 \/ newline < colon) THEN "newline in key"
        ELSE IF colon = 0 THEN "end of file in key"
        ELSE LET v    == SubSeq(s, colon + 1, Len(s))
                 stop == FirstOf(v, {" ", "\n"})
                 bad  == FirstOf(v, {":"})
             IN  IF bad > 0 /\ (stop = 0 \/ bad < stop) THEN ": in value"
                 ELSE "pair"

\* C5: parse_pair returns each of its three errors exactly in the case the
\* claim names, and a Pair in every other case.
C5_ErrorsExactlyWhen ==
    /\ tok.kind = "Err" => tok.msg = ExpectedOutcome(src)
    /\ tok.kind = "Pair" => ExpectedOutcome(src) = "pair"

\* parse_pair failed on a ':' after at least one character of the value.
C5_Witness ==
    /\ tok.kind = "Err"
    /\ tok.msg = ": in value"
    /\ value /= ""

----------------------------------------------------------------------------
(* C6 *)

\* C6: a run in which a read of the input failed reports no counts.
C6_ReadErrorIsFatal == ReadErrorPrinted => ~CountsReported

----------------------------------------------------------------------------
(* C7 *)

RequiredSet == {REQUIRED[i] : i \in 1..Len(REQUIRED)}

\* C7: contains_required_fields holds exactly of the records whose keys are
\* the seven required names, or those and cid; the values play no part; and
\* main's first count is 1 exactly for such a record.
C7_RequiredFieldsExactly ==
    \A i \in 1..Len(passports) :
        LET p  == passports[i]
            ok == DOMAIN p = RequiredSet \/ DOMAIN p = RequiredSet \cup {"cid"}
        IN  /\ contains_required_fields(p) <=> ok
            /\ \A prof \in ValueProfiles :
                   contains_required_fields(WithValues(DOMAIN p, prof))
                       <=> contains_required_fields(p)
            /\ (pc = "done" /\ Len(passports) = 1)
                   => (ReportedRequired = IF ok THEN 1 ELSE 0)

\* A record of seven fields, six required names and cid, was counted out.
C7_Witness ==
    /\ pc = "done"
    /\ Len(passports) = 1
    /\ Cardinality(DOMAIN passports[1]) = 7
    /\ "cid" \in DOMAIN passports[1]
    /\ ReportedRequired = 0

----------------------------------------------------------------------------
(* C8 *)

\* C8: on a successful run the second count is the number of records that
\* pass both checks; it is at most the first count, which is at most the
\* number of Records.
C8_ValidAtMostRequired ==
    pc = "done"
        => /\ ReportedValid =
                Cardinality({i \in 1..Len(passports) :
                    contains_required_fields(passports[i])
                        /\ is_valid(passports[i])})
           /\ ReportedValid <= ReportedRequired
           /\ ReportedRequired <= Len(passports)

\* A run reported a record with the required fields that is not valid.
C8_Witness ==
    /\ pc = "done"
    /\ ReportedValid < ReportedRequired

----------------------------------------------------------------------------
(* C9 *)

\* The reader has nothing more to deliver.
AtEndOfInput == state.tag = "Done" \/ Unread(state) = ""

\* C9: when the input ends inside a value the Pair is emitted with the
\* characters read so far; a non-empty map at the end of the tokens is
\* emitted as one last Record; after that no Record is emitted.
C9_EndOfInputTerminates ==
    /\ [][(tpc = "value" /\ AtEndOfInput) => tok' = TokPair(key, value)]_vars
    /\ [][(tok.kind = "End" /\ DOMAIN pairs /= {})
            => (passports' = Append(passports, pairs) /\ pc' = "collect")]_vars
    /\ [][(state.tag = "Done" /\ tok.kind \in {"none", "End"}
                /\ DOMAIN pairs = {})
            => passports' = passports]_vars

\* The input ended inside a value and the run went on to count a last
\* Record holding that value.
C9_Witness ==
    /\ pc = "count"
    /\ ~ReadErrorPrinted
    /\ input /= ""
    /\ Last(input) \notin {"\n", " ", ":"}
    /\ value /= ""
    /\ Len(passports) >= 1

----------------------------------------------------------------------------
(* C10 *)

\* C10: when CharReader::next has returned None, the characters it returned
\* before are the input text.
C10_CharsAreInput == state.tag = "Done" => consumed = input

\* What does hold of the reader: the characters returned and those still to
\* come make up the input, in order, and all were returned at the first
\* None unless a read failed.
ReaderDeliversInOrder ==
    /\ state.tag /= "Done" => consumed \o Unread(state) = input
    /\ (state.tag = "Done" /\ ~ReadErrorPrinted) => consumed = input

----------------------------------------------------------------------------
(* C11 *)

\* C11: a record in which byr, iyr, eyr or hgt carries a sign character or
\* whitespace is not counted as valid.
C11_NoSignNoWhitespace ==
    pc = "done"
        => \A i \in 1..Len(passports) :
              (\E k \in IntFields : Has(passports[i][k], SignsAndSpaces))
                  => (~is_valid(passports[i]) /\ ReportedValid = 0)

----------------------------------------------------------------------------
(* C12 *)

RECURSIVE StripZeros(_)
StripZeros(s) ==
    IF Len(s) > 1 /\ Head(s) = "0" THEN StripZeros(Tail(s)) ELSE s

\* The decimal numerals of the integers from..to.
NumeralsOf(from, to) == {ToString(n) : n \in from..to}

\* The value parses, and the integer it denotes lies in from..to.
YearOk(v, from, to) ==
    /\ ParseU32(v).ok
    /\ StripZeros(IF Head(v) = "+" THEN Tail(v) ELSE v) \in NumeralsOf(from, to)

\* C12: byr passes exactly on 1920..2002, iyr on 2010..2020, eyr on
\* 2020..2030, the bounds included and their neighbours excluded; with the
\* other fields good, the record is counted valid exactly then.
C12_YearRanges ==
    \A i \in 1..Len(passports) :
        LET p == passports[i] IN
        /\ is_valid_byr(p) <=> YearOk(p["byr"], 1920, 2002)
        /\ is_valid_iyr(p) <=> YearOk(p["iyr"], 2010, 2020)
        /\ is_valid_eyr(p) <=> YearOk(p["eyr"], 2020, 2030)
        /\ p["byr"] \in {"1920", "2002"} => is_valid_byr(p)
        /\ p["byr"] \in {"1919", "2003"} => ~is_valid_byr(p)
        /\ p["iyr"] \in {"2010", "2020"} => is_valid_iyr(p)
        /\ p["iyr"] \in {"2009", "2021"} => ~is_valid_iyr(p)
        /\ p["eyr"] \in {"2020", "2030"} => is_valid_eyr(p)
        /\ p["eyr"] \in {"2019", "2031"} => ~is_valid_eyr(p)
        /\ (pc = "done" /\ p["hgt"] = GoodValues["hgt"])
              => (ReportedValid = 1
                    <=> /\ YearOk(p["byr"], 1920, 2002)
                        /\ YearOk(p["iyr"], 2010, 2020)
                        /\ YearOk(p["eyr"], 2020, 2030))

\* A record whose byr is the upper bound was counted valid.
C12_Witness ==
    /\ pc = "done"
    /\ passports[1]["byr"] = "2002"
    /\ ReportedValid = 1

----------------------------------------------------------------------------
(* C13 *)

\* v is one or more digits then exactly cm or in, the number in 150..193
\* for cm and in 59..76 for in.
HgtOk(v) ==
    \E k \in 1..Len(v) :
        LET amount == SubSeq(v, 1, k)
            unit   == SubSeq(v, k + 1, Len(v))
        IN  /\ AllIn(amount, Digits)
            /\ \/ unit = "cm" /\ StripZeros(amount) \in NumeralsOf(150, 193)
               \/ unit = "in" /\ StripZeros(amount) \in NumeralsOf(59, 76)

\* C13: hgt passes exactly on such values; 190cm passes; 190, 190in, 60cm,
\* another unit and a unit without digits fail; with the other fields good,
\* the record is counted valid exactly when hgt passes.
C13_HeightRule ==
    \A i \in 1..Len(passports) :
        LET p == passports[i]
            v == passports[i]["hgt"]
        IN  /\ is_valid_hgt(p) <=> HgtOk(v)
            /\ v = "190cm" => is_valid_hgt(p)
            /\ v \in {"190", "190in", "60cm", "190mm", "cm", "in"}
                  => ~is_valid_hgt(p)
            /\ (pc = "done" /\ \A k \in IntFields \ {"hgt"} : p[k] = GoodValues[k])
                  => (ReportedValid = 1 <=> HgtOk(v))

\* A record whose hgt is 190in was counted out.
C13_Witness ==
    /\ pc = "done"
    /\ passports[1]["hgt"] = "190in"
    /\ ReportedValid = 0

----------------------------------------------------------------------------
(* C14 *)

\* Two lines of one group holding the seven required fields.
ExampleGroup ==
    "byr:1990 iyr:2015 eyr:2025\nhgt:180cm hcl:#abc123 ecl:blu pid:123456789\n"

\* m with k mapped to v and every other key as it was.
Overridden(m2, m, k, v) ==
    /\ DOMAIN m2 = DOMAIN m \cup {k}
    /\ m2[k] = v
    /\ \A x \in DOMAIN m \ {k} : m2[x] = m[x]

\* C14: a Pair overrides the value its key had in the map and leaves the
\* other keys alone, without an error; the map changes in no other way
\* until it is emitted; so a key given twice in a group has its last value
\* in the Record and counts once.
C14_LastWriteWins ==
    /\ [][tok.kind = "Pair"
            => /\ Overridden(pairs', pairs, tok.key, tok.value)
               /\ pc' = "collect" /\ err' = err
               /\ passports' = passports]_vars
    /\ [][pairs' /= pairs
            => \/ tok.kind = "Pair"
               \/ passports' = Append(passports, pairs)]_vars
    /\ []((pc = "done" /\ ~ReadErrorPrinted
                /\ input = ExampleGroup \o "hgt:190in\n")
            => /\ Len(passports) = 1
               /\ passports[1] =
                    [WithValues(KeyUniverse \ {"cid", "xyz"}, GoodValues)
                        EXCEPT !["hgt"] = "190in"])
    /\ []((pc = "done" /\ ~ReadErrorPrinted /\ input = "a:a a:")
            => passports = <<[k \in {"a"} |-> ""]>>)

\* A group that gives hgt twice was emitted with seven fields and the
\* second hgt.
C14_Witness ==
    /\ pc = "done"
    /\ ~ReadErrorPrinted
    /\ input = ExampleGroup \o "hgt:190in\n"
    /\ Cardinality(DOMAIN passports[1]) = 7
    /\ passports[1]["hgt"] = "190in"

----------------------------------------------------------------------------
(* C15 *)

Example == ExampleGroup \o "\n" \o "byr:1990 iyr:2015"

\* C15: the run on the example text, read in full, does not abort, emits
\* two records and reports 1 and 1.
C15_ExampleCounts ==
    (input = Example /\ ~ReadErrorPrinted)
        => /\ pc /= "panic"
           /\ pc \in {"count", "done"} => Len(passports) = 2
           /\ pc = "done" => (ReportedRequired = 1 /\ ReportedValid = 1)

\* The run on the example text has reported.
C15_Witness ==
    /\ pc = "done"
    /\ input = Example
    /\ ~ReadErrorPrinted

----------------------------------------------------------------------------
(* C16 *)

----------------------------------------------------------------------------
(* C17 *)

\* C17: a Record, once emitted, never changes and keeps its place; the
\* Record emitted is the map built since the last emission, and the next
\* map starts empty; so the second group of a text holds none of the
\* first group's fields.
C17_RecordsShareNothing ==
    /\ [][/\ Len(passports') >= Len(passports)
          /\ SubSeq(passports', 1, Len(passports)) = passports]_vars
    /\ [][passports' /= passports
            => /\ passports' = Append(passports, pairs)
               /\ pairs' = EmptyPairs]_vars
    /\ [][(pairs' /= pairs /\ passports' = passports)
            => /\ tok.kind = "Pair"
               /\ Overridden(pairs', pairs, tok.key, tok.value)]_vars
    /\ []((pc = "done" /\ ~ReadErrorPrinted /\ input = "xyz:1\n\ncid:1\n")
            => passports = <<[k \in {"xyz"} |-> "1"], [k \in {"cid"} |-> "1"]>>)

\* Two groups were emitted in their order, with no field in common.
C17_Witness ==
    /\ pc = "done"
    /\ Len(passports) = 2
    /\ DOMAIN passports[1] = {"xyz"}
    /\ DOMAIN passports[2] = {"cid"}

----------------------------------------------------------------------------
(* C18 *)

ValidTags == {"Reader", "ReaderLine", "Done"}

\* C18: between calls the CharReader state is never the taken-out None,
\* every call made from a reachable state, whether or not its read fails,
\* puts a state back and does not panic, and the panic for a None state
\* never happens.
C18_StateNeverNone ==
    /\ state.tag \in ValidTags
    /\ err /= "none is not a valid state outside the next function"
    /\ \A fails \in BOOLEAN :
          LET r == CharReaderNext(state, fails) IN
          ~r.panicked /\ r.state.tag \in ValidTags

\* A read failed after some characters were delivered, and the state is Done.
C18_Witness ==
    /\ state.tag = "Done"
    /\ ReadErrorPrinted
    /\ consumed /= ""

----------------------------------------------------------------------------
(* C19 *)

\* C19: a CharReader::next call that returns None leaves the state Done;
\* once the state is Done it stays Done and every call returns None and
\* delivers nothing; Tokens::next returns None only with the state Done, and
\* no token but None comes after that; and once Passports::next has returned
\* None the Records stay as they are.
C19_ExhaustionIsSticky ==
    /\ [][state.tag = "Done"
            => (state' = StDone /\ consumed' = consumed)]_vars
    /\ [](\A fails \in BOOLEAN :
            LET r == CharReaderNext(state, fails) IN
            /\ ~r.some => r.state = StDone
            /\ state.tag = "Done" => ~r.some)
    /\ [](tok.kind = "End" => state.tag = "Done")
    /\ [][(state.tag = "Done" /\ tok' /= tok)
            => tok'.kind \in {"End", "none"}]_vars
    /\ [][(pc \in {"count", "done"})
            => (passports' = passports /\ pc' \in {"count", "done"})]_vars

\* Tokens::next returned None a second time: the first None ended the last
\* Pair and the last Record, and the call after it found Done again.
C19_Witness ==
    /\ tok.kind = "End"
    /\ state.tag = "Done"
    /\ DOMAIN pairs = {}
    /\ Len(passports) >= 1
    /\ ~ReadErrorPrinted
    /\ input /= ""
    /\ Last(input) = "a"

----------------------------------------------------------------------------
(* C20 *)

\* C20: every run ends, with both counts printed or with a panic, and takes
\* no step after that; and no CharReader::next call goes round its loop
\* more than three times.
C20_Terminates ==
    /\ <>(pc \in {"done", "panic"})
    /\ [][~(pc \in {"done", "panic"})]_vars
    /\ [](pc = "done"
            => /\ \E i \in 1..Len(out) : out[i].kind = "required"
               /\ \E i \in 1..Len(out) : out[i].kind = "valid")
    /\ [](\A fails \in BOOLEAN : CharReaderNext(state, fails).steps <= 3)

\* A run over more than one line has ended with a Record and its counts
\* printed.
C20_Witness ==
    /\ pc = "done"
    /\ CountsReported
    /\ Len(passports) >= 1
    /\ Has(input, {"\n"})

====
